---- MODULE Spec2Model ----
(***************************************************************************)
(* Cheat sheet generator: validation and parsing of the hotkey definition  *)
(* (parser.py), grouping (models.py), height estimation, flow planning and *)
(* page estimation (generator.py), and the command line driver (cli.py).   *)
(*                                                                         *)
(* Lengths are fixed-point numbers: one layout unit is Unit hundredths, so *)
(* that a float such as 99.99 or 200.01 is the integer 9999 or 20001.      *)
(***************************************************************************)
EXTENDS Integers, Sequences, FiniteSets, TLC

VARIABLES
    input,          \* the YAML file handed to the CLI: its state and content
    args,           \* the CLI flags --validate and --estimate-pages
    pc,             \* position of the running operation
    errors,         \* validate_yaml: the list of messages built so far
    vidx,           \* validate_yaml: number of sections the loop has visited
    title,          \* CheatSheet.title
    hotkeys,        \* CheatSheet.hotkeys
    config,         \* CheatSheet.config
    sections,       \* _build_content: the grouped view it iterates over
    idx,            \* _build_content: number of sections already planned
    section_items,  \* _build_content: blocks emitted for the sections so far
    content,        \* _build_content: the returned block stream
    policy,         \* _build_content: branch taken for each planned section
    heights,        \* _build_content: section_height of each planned section
    pages,          \* value returned by estimate_pages
    raised,         \* the exception that ended the operation, "" if none
    exit_code       \* process exit code of the CLI, -1 while running

vars == <<input, args, pc, errors, vidx, title, hotkeys, config, sections, idx,
          section_items, content, policy, heights, pages, raised, exit_code>>

----------------------------------------------------------------------------
(* Bounds of the model *)

MaxEntries == 3
MaxItems == 2
MaxSections == 2
MaxRows == 2

Unit == 10 * 10

----------------------------------------------------------------------------
(* Input alphabets *)

Keys == {"a", "<"}
Descriptions == {"d"}
SectionNames == {"Edit", "File"}
SubsectionNames == {"", "General", "Clipboard"}

page_width == 84189
page_height == 59528

DefaultConfig ==
    [title |-> "Hotkey Cheat Sheet", font_size |-> 7 * Unit, header_font_size |-> 12 * Unit, columns |-> 5,
     margin |-> 15 * Unit, row_height |-> 10 * Unit,
     section_spacing |-> 5 * Unit, subsection_spacing |-> 3 * Unit]

\* one "General" entry estimates to exactly 100, one "General" entry plus one
\* named subsection of one entry to exactly 200; one column on a page whose
\* margins leave 15.28 units of height
BoundaryConfig ==
    [title |-> "Test", font_size |-> 12 * Unit, header_font_size |-> 5 * Unit, columns |-> 1,
     margin |-> 290 * Unit, row_height |-> 77 * Unit,
     section_spacing |-> 0, subsection_spacing |-> 3 * Unit]

\* the same two sections estimate to 99.99 and to 200.01
NearBoundaryConfig ==
    [title |-> "Test", font_size |-> 12 * Unit, header_font_size |-> 4 * Unit, columns |-> 2,
     margin |-> 15 * Unit, row_height |-> 7702,
     section_spacing |-> 97, subsection_spacing |-> 3 * Unit]

\* a row height below zero: CheatSheetConfig accepts any number
NegativeRowConfig == [DefaultConfig EXCEPT !.row_height = -(70 * Unit)]

ZeroColumnsConfig == [DefaultConfig EXCEPT !.columns = 0]

Configs == {DefaultConfig, BoundaryConfig, NearBoundaryConfig,
            NegativeRowConfig, ZeroColumnsConfig}

----------------------------------------------------------------------------
(* models.py: Hotkey, CheatSheet.get_sections *)

NoHotkey == [key |-> "", description |-> "", section |-> "", subsection |-> ""]

HotkeyValid_nodescription(key, description, section) ==
    key # "" /\ section # ""

\* Hotkey.__post_init__: key, description and section are required
HotkeyValid(key, description, section) ==
    key # "" /\ description # "" /\ section # ""

Hotkey(key, description, section, subsection) ==
    IF HotkeyValid(key, description, section)
    THEN [key |-> key, description |-> description,
          section |-> section, subsection |-> subsection]
    ELSE NoHotkey

\* position of the item called name in an insertion-ordered mapping, 0 if absent
IndexOf(mapping, name) ==
    IF \E i \in 1..Len(mapping) : mapping[i].name = name
    THEN CHOOSE i \in 1..Len(mapping) : mapping[i].name = name
    ELSE 0

SubsectionOf_raw(hotkey) == hotkey.subsection

\* "General" stands for an empty subsection
SubsectionOf(hotkey) ==
    IF hotkey.subsection = "" THEN "General" ELSE hotkey.subsection

AddToSubsections(subsections, hotkey) ==
    LET i == IndexOf(subsections, SubsectionOf(hotkey))
    IN IF i = 0
       THEN Append(subsections,
                   [name |-> SubsectionOf(hotkey), hotkeys |-> <<hotkey>>])
       ELSE [subsections EXCEPT ![i].hotkeys = Append(@, hotkey)]

AddToSections(secs, hotkey) ==
    LET i == IndexOf(secs, hotkey.section)
    IN IF i = 0
       THEN Append(secs, [name |-> hotkey.section,
                          subsections |-> AddToSubsections(<<>>, hotkey)])
       ELSE [secs EXCEPT ![i].subsections = AddToSubsections(@, hotkey)]

RECURSIVE GroupFrom(_, _, _)
GroupFrom(secs, hks, i) ==
    IF i > Len(hks) THEN secs
    ELSE GroupFrom(AddToSections(secs, hks[i]), hks, i + 1)

get_sections(hks) == GroupFrom(<<>>, hks, 1)

Reverse(seq) == [i \in 1..Len(seq) |-> seq[Len(seq) + 1 - i]]

SheetSections_reversed(hks) == Reverse(get_sections(hks))

\* "sections = self.cheat_sheet.get_sections()", iterated by sections.items()
SheetSections(hks) == get_sections(hks)

----------------------------------------------------------------------------
(* generator.py: layout, height estimation, page estimation *)

calculate_layout(cfg) ==
    LET usable_width == page_width - 2 * cfg.margin
        usable_height == page_height - 2 * cfg.margin
        column_spacing == 15 * Unit
        column_width ==
            (usable_width - (cfg.columns - 1) * column_spacing) \div cfg.columns
    IN <<column_width, usable_height>>

\* _calculate_layout divides by config.columns
LayoutRaises(cfg) == cfg.columns = 0

RECURSIVE SubsectionsHeight_allheaders(_, _, _)
SubsectionsHeight_allheaders(subsections, cfg, i) ==
    IF i > Len(subsections) THEN 0
    ELSE (cfg.font_size + 8 * Unit)
         + Len(subsections[i].hotkeys) * cfg.row_height
         + cfg.subsection_spacing
         + SubsectionsHeight_allheaders(subsections, cfg, i + 1)

RECURSIVE SubsectionsHeight_minus(_, _, _)
SubsectionsHeight_minus(subsections, cfg, i) ==
    IF i > Len(subsections) THEN 0
    ELSE (IF subsections[i].name # "General" THEN cfg.font_size + 8 * Unit ELSE 0)
         - Len(subsections[i].hotkeys) * cfg.row_height
         + cfg.subsection_spacing
         + SubsectionsHeight_minus(subsections, cfg, i + 1)

\* the loop over subsections.items() of _estimate_section_height
RECURSIVE SubsectionsHeight(_, _, _)
SubsectionsHeight(subsections, cfg, i) ==
    IF i > Len(subsections) THEN 0
    ELSE (IF subsections[i].name # "General" THEN cfg.font_size + 8 * Unit ELSE 0)
         + Len(subsections[i].hotkeys) * cfg.row_height
         + cfg.subsection_spacing
         + SubsectionsHeight(subsections, cfg, i + 1)

estimate_section_height(subsections, cfg) ==
    (cfg.header_font_size + 15 * Unit)
    + SubsectionsHeight(subsections, cfg, 1)
    + cfg.section_spacing

\* math.ceil(num / den) for den # 0
Ceil(num, den) ==
    IF den > 0 THEN -((-num) \div den) ELSE -(num \div (-den))

RECURSIVE SumSubsections(_, _)
SumSubsections(secs, i) ==
    IF i > Len(secs) THEN 0
    ELSE Len(secs[i].subsections) + SumSubsections(secs, i + 1)

Max(a, b) == IF a >= b THEN a ELSE b

total_height_headers15(hks, cfg) ==
    LET total_hotkeys == Len(hks)
        secs == get_sections(hks)
        title_height == 30 * Unit
        section_headers == Len(secs) * 15 * Unit
        subsection_headers == SumSubsections(secs, 1) * 15 * Unit
        hotkey_height == total_hotkeys * cfg.row_height
        spacing == Len(secs) * cfg.section_spacing
    IN title_height + section_headers + subsection_headers
       + hotkey_height + spacing

\* total_height of estimate_pages
total_height(hks, cfg) ==
    LET total_hotkeys == Len(hks)
        secs == get_sections(hks)
        title_height == 30 * Unit
        section_headers == Len(secs) * 15 * Unit
        subsection_headers == SumSubsections(secs, 1) * 12 * Unit
        hotkey_height == total_hotkeys * cfg.row_height
        spacing == Len(secs) * cfg.section_spacing
    IN title_height + section_headers + subsection_headers
       + hotkey_height + spacing

estimate_pages_nomax(hks, cfg) ==
    LET usable_height == calculate_layout(cfg)[2]
    IN Ceil(total_height(hks, cfg), cfg.columns * usable_height)

\* effective_height = total_height / columns;
\* max(1, math.ceil(effective_height / usable_height))
estimate_pages(hks, cfg) ==
    LET usable_height == calculate_layout(cfg)[2]
    IN Max(1, Ceil(total_height(hks, cfg), cfg.columns * usable_height))

\* estimate_pages divides by config.columns and by usable_height
EstimateRaises(cfg) ==
    LayoutRaises(cfg) \/ calculate_layout(cfg)[2] = 0

----------------------------------------------------------------------------
(* generator.py: the blocks handed to the renderer *)

Paragraph(text, style) == [type |-> "Paragraph", text |-> text, style |-> style]

Spacer(height) == [type |-> "Spacer", height |-> height]

Table(data, colWidths) == [type |-> "Table", data |-> data, colWidths |-> colWidths]

KeepTogether(flowables) == [type |-> "KeepTogether", flowables |-> flowables]

None == [type |-> "None"]

\* xml.sax.saxutils.escape, on strings of at most one character or free of & < >
escape(s) ==
    CASE s = "&" -> "&amp;"
      [] s = "<" -> "&lt;"
      [] s = ">" -> "&gt;"
      [] OTHER -> s

\* str.upper, on the section names of the model
upper(s) ==
    CASE s = "Edit" -> "EDIT"
      [] s = "File" -> "FILE"
      [] OTHER -> s

HotkeyRow(hotkey) ==
    <<Paragraph("<font name='Courier-Bold'>" \o escape(hotkey.key) \o "</font>",
                "hotkey"),
      Paragraph(escape(hotkey.description), "hotkey")>>

create_hotkey_table(hks, cfg) ==
    IF hks = <<>> THEN None
    ELSE LET column_width == calculate_layout(cfg)[1]
             key_width == (column_width * 35) \div 100
             desc_width == (column_width * 65) \div 100
         IN Table([i \in 1..Len(hks) |-> HotkeyRow(hks[i])],
                  <<key_width, desc_width>>)

\* _create_hotkey_table calls _calculate_layout once the list is not empty
TableRaises(hks, cfg) == hks # <<>> /\ LayoutRaises(cfg)

SectionHeader(section_name) ==
    Paragraph("<b>" \o upper(section_name) \o "</b>", "section_header")

SubsectionHeader(subsection_name) ==
    Paragraph("<i>" \o subsection_name \o "</i>", "subsection_header")

\* header (unless "General"), then table and spacer (unless the table is None)
SubsectionBlocks(subsection, cfg) ==
    LET table == create_hotkey_table(subsection.hotkeys, cfg)
    IN (IF subsection.name # "General"
        THEN <<SubsectionHeader(subsection.name)>> ELSE <<>>)
       \o (IF table # None
           THEN <<table, Spacer(cfg.subsection_spacing)>> ELSE <<>>)

RECURSIVE SubsectionsContent(_, _, _)
SubsectionsContent(subsections, cfg, i) ==
    IF i > Len(subsections) THEN <<>>
    ELSE SubsectionBlocks(subsections[i], cfg)
         \o SubsectionsContent(subsections, cfg, i + 1)

\* section_content: the whole section as one sequence
SectionContent(section, cfg) ==
    <<SectionHeader(section.name), Spacer(3 * Unit)>>
    \o SubsectionsContent(section.subsections, cfg, 1)

RECURSIVE LargeItems_headerevery(_, _, _)
LargeItems_headerevery(section, cfg, i) ==
    IF i > Len(section.subsections) THEN <<>>
    ELSE LET subsection_content ==
                 <<SectionHeader(section.name), Spacer(3 * Unit)>>
                 \o SubsectionBlocks(section.subsections[i], cfg)
         IN (IF Len(subsection_content) > 0
             THEN <<KeepTogether(subsection_content)>> ELSE <<>>)
            \o LargeItems_headerevery(section, cfg, i + 1)

\* the branch for section_height > 200: one KeepTogether per subsection
RECURSIVE LargeItems(_, _, _)
LargeItems(section, cfg, i) ==
    IF i > Len(section.subsections) THEN <<>>
    ELSE LET subsection_content ==
                 (IF i = 1
                  THEN <<SectionHeader(section.name), Spacer(3 * Unit)>>
                  ELSE <<>>)
                 \o SubsectionBlocks(section.subsections[i], cfg)
         IN (IF Len(subsection_content) > 0
             THEN <<KeepTogether(subsection_content)>> ELSE <<>>)
            \o LargeItems(section, cfg, i + 1)

SectionPolicy_inclusive(section_height) ==
    IF section_height >= 200 * Unit THEN "LARGE"
    ELSE IF section_height < 100 * Unit THEN "SMALL"
    ELSE "MEDIUM"

SectionPolicy(section_height) ==
    IF section_height > 200 * Unit THEN "LARGE"
    ELSE IF section_height < 100 * Unit THEN "SMALL"
    ELSE "MEDIUM"

PlanSection_swapped(section, cfg) ==
    LET section_height == estimate_section_height(section.subsections, cfg)
        branch == SectionPolicy(section_height)
    IN (CASE branch = "LARGE" -> LargeItems(section, cfg, 1)
          [] branch = "SMALL" -> SectionContent(section, cfg)
          [] OTHER -> <<KeepTogether(SectionContent(section, cfg))>>)
       \o <<Spacer(cfg.section_spacing)>>

PlanSection_spacerelse(section, cfg) ==
    LET section_height == estimate_section_height(section.subsections, cfg)
        branch == SectionPolicy(section_height)
    IN CASE branch = "LARGE" -> LargeItems(section, cfg, 1)
         [] branch = "SMALL" -> <<KeepTogether(SectionContent(section, cfg))>>
         [] OTHER -> SectionContent(section, cfg)
                     \o <<Spacer(cfg.section_spacing)>>

PlanSection_largeboth(section, cfg) ==
    LET section_height == estimate_section_height(section.subsections, cfg)
        branch == SectionPolicy(section_height)
    IN (CASE branch = "LARGE" -> SectionContent(section, cfg)
                                 \o LargeItems(section, cfg, 1)
          [] branch = "SMALL" -> <<KeepTogether(SectionContent(section, cfg))>>
          [] OTHER -> SectionContent(section, cfg))
       \o <<Spacer(cfg.section_spacing)>>

\* what one iteration of the loop over the sections appends to section_items
PlanSection(section, cfg) ==
    LET section_height == estimate_section_height(section.subsections, cfg)
        branch == SectionPolicy(section_height)
    IN (CASE branch = "LARGE" -> LargeItems(section, cfg, 1)
          [] branch = "SMALL" -> <<KeepTogether(SectionContent(section, cfg))>>
          [] OTHER -> SectionContent(section, cfg))
       \o <<Spacer(cfg.section_spacing)>>

SectionRaises(section, cfg) ==
    \E i \in 1..Len(section.subsections) :
        TableRaises(section.subsections[i].hotkeys, cfg)

----------------------------------------------------------------------------
(* Operations *)

NoInput == [root |-> "none", title |-> "", config |-> <<>>, sections |-> <<>>]

ApiArgs == [cli |-> FALSE, validate |-> FALSE, estimate_pages |-> FALSE]

\* an exception leaves the operation; main's "except Exception" exits with 1
Raise(exception) ==
    /\ raised' = exception
    /\ pc' = "raised"
    /\ exit_code' = IF args.cli THEN 1 ELSE exit_code

\* Hotkey(key, description, section, subsection) appended to the list that
\* CheatSheet(title, hotkeys, config) will be built from
NewHotkey(key, description, section, subsection) ==
    /\ pc = "construct"
    /\ Len(hotkeys) < MaxEntries
    /\ IF HotkeyValid(key, description, section)
       THEN /\ hotkeys' = Append(hotkeys,
                                 Hotkey(key, description, section, subsection))
            /\ UNCHANGED <<pc, raised, exit_code>>
       ELSE /\ Raise("ValueError")
            /\ UNCHANGED hotkeys
    /\ UNCHANGED <<input, args, errors, vidx, title, config, sections, idx,
                   section_items, content, policy, heights, pages>>

\* CheatSheet(title, hotkeys, config); PDFGenerator(cheat_sheet)
NewCheatSheet ==
    /\ pc = "construct"
    /\ pc' = "ready"
    /\ UNCHANGED <<input, args, errors, vidx, title, hotkeys, config, sections,
                   idx, section_items, content, policy, heights, pages, raised,
                   exit_code>>

BuildContentStart_reversed ==
    /\ pc = "ready"
    /\ args.cli => ~args.estimate_pages
    /\ IF args.cli /\ LayoutRaises(config)
       THEN /\ Raise("ZeroDivisionError")
            /\ UNCHANGED <<sections, idx, section_items, policy, heights,
                           hotkeys>>
       ELSE /\ pc' = "build"
            /\ hotkeys' = Reverse(hotkeys)
            /\ sections' = SheetSections(hotkeys')
            /\ idx' = 0
            /\ section_items' = <<>>
            /\ policy' = <<>>
            /\ heights' = <<>>
            /\ UNCHANGED <<raised, exit_code>>
    /\ UNCHANGED <<input, args, errors, vidx, title, config, content, pages>>

\* _build_content up to the loop over the sections; from the CLI it is reached
\* through generate, after _create_multicolumn_doc has divided by the columns
BuildContentStart ==
    /\ pc = "ready"
    /\ args.cli => ~args.estimate_pages
    /\ IF args.cli /\ LayoutRaises(config)
       THEN /\ Raise("ZeroDivisionError")
            /\ UNCHANGED <<sections, idx, section_items, policy, heights>>
       ELSE /\ pc' = "build"
            /\ sections' = SheetSections(hotkeys)
            /\ idx' = 0
            /\ section_items' = <<>>
            /\ policy' = <<>>
            /\ heights' = <<>>
            /\ UNCHANGED <<raised, exit_code>>
    /\ UNCHANGED <<input, args, errors, vidx, title, hotkeys, config, content,
                   pages>>

\* one iteration of "for section_name, subsections in sections.items()"
BuildSection ==
    /\ pc = "build"
    /\ idx < Len(sections)
    /\ LET section == sections[idx + 1]
       IN IF SectionRaises(section, config)
          THEN /\ Raise("ZeroDivisionError")
               /\ UNCHANGED <<idx, section_items, policy, heights>>
          ELSE LET section_height ==
                       estimate_section_height(section.subsections, config)
               IN /\ heights' = Append(heights, section_height)
                  /\ policy' = Append(policy, SectionPolicy(section_height))
                  /\ section_items' =
                         section_items \o PlanSection(section, config)
                  /\ idx' = idx + 1
                  /\ UNCHANGED <<pc, raised, exit_code>>
    /\ UNCHANGED <<input, args, errors, vidx, title, hotkeys, config, sections,
                   content, pages>>

\* content.extend(section_items); return content
BuildContentReturn ==
    /\ pc = "build"
    /\ idx = Len(sections)
    /\ content' = <<Paragraph(title, "title"), Spacer(12 * Unit)>>
                  \o section_items
    /\ pc' = "built"
    /\ UNCHANGED <<input, args, errors, vidx, title, hotkeys, config, sections,
                   idx, section_items, policy, heights, pages, raised,
                   exit_code>>

\* estimate_pages; main calls it instead of generate under --estimate-pages
\* and after generate otherwise, and then returns
EstimatePages ==
    /\ pc \in {"ready", "built"}
    /\ args.cli => (args.estimate_pages <=> pc = "ready")
    /\ IF EstimateRaises(config)
       THEN /\ Raise("ZeroDivisionError")
            /\ UNCHANGED pages
       ELSE /\ pages' = estimate_pages(hotkeys, config)
            /\ pc' = "done"
            /\ exit_code' = IF args.cli THEN 0 ELSE exit_code
            /\ UNCHANGED raised
    /\ UNCHANGED <<input, args, errors, vidx, title, hotkeys, config, sections,
                   idx, section_items, content, policy, heights>>

Layout == BuildContentStart \/ BuildSection \/ BuildContentReturn
          \/ EstimatePages

----------------------------------------------------------------------------
(* The library used directly: a CheatSheet built from Hotkey objects *)

InitApi ==
    /\ input = NoInput
    /\ args = ApiArgs
    /\ pc = "construct"
    /\ errors = <<>>
    /\ vidx = 0
    /\ title = "Test"
    /\ hotkeys = <<>>
    /\ config \in Configs
    /\ sections = <<>>
    /\ idx = 0
    /\ section_items = <<>>
    /\ content = <<>>
    /\ policy = <<>>
    /\ heights = <<>>
    /\ pages = 0
    /\ raised = ""
    /\ exit_code = -1

Construct ==
    \E key \in Keys \cup {""}, description \in Descriptions \cup {""},
       section \in SectionNames \cup {""}, subsection \in SubsectionNames :
        NewHotkey(key, description, section, subsection)

NextApi == Construct \/ NewCheatSheet \/ Layout

SpecApi == InitApi /\ [][NextApi]_vars

----------------------------------------------------------------------------
(* parser.py: the loaded YAML document, validate_yaml, parse_dict *)

\* a mapping is a sequence of items with distinct names, in insertion order
Distinct(mapping) ==
    \A i, j \in 1..Len(mapping) : mapping[i].name = mapping[j].name => i = j

Mappings(names, values, max) ==
    UNION {{m \in [1..k -> [name : names, value : values]] : Distinct(m)}
           : k \in 0..max}

Scalar(text) == [dict |-> FALSE, text |-> text, items |-> <<>>]

Dict(items) == [dict |-> TRUE, text |-> "", items |-> items]

\* the value of an item of a section: a description or a nested mapping
ItemValues ==
    {Scalar(text) : text \in Descriptions \cup {""}}
    \cup {Dict(items) : items \in Mappings({"<"}, Descriptions, 1)}

\* the value of a section: a scalar or a mapping of items
SectionValues ==
    {Scalar("x")}
    \cup {Dict(items) : items \in Mappings({"a", "Clipboard"}, ItemValues, MaxItems)}

\* the optional "title" and "config" keys of the document
Heads ==
    {[title |-> <<>>, config |-> <<>>],
     [title |-> <<"Custom">>,
      config |-> <<[name |-> "row_height", value |-> 77 * Unit],
                   [name |-> "unknown_field", value |-> 1]>>],
     [title |-> <<"Custom">>, config |-> <<[name |-> "columns", value |-> 0]>>]}

RootFailures == {"notfound", "syntax", "notdict", "nosections", "sectionsnotdict"}

Inputs ==
    {[root |-> root, title |-> <<>>, config |-> <<>>, sections |-> <<>>]
        : root \in RootFailures}
    \cup {[root |-> "ok", title |-> head.title, config |-> head.config,
           sections |-> secs]
           : head \in Heads,
             secs \in Mappings(SectionNames, SectionValues, MaxSections)}

RootMessage(root) ==
    CASE root = "syntax" -> "Invalid YAML syntax: e"
      [] root = "notfound" -> "File not found: file_path"
      [] root = "notdict" -> "Root element must be a dictionary"
      [] root = "nosections" -> "Missing 'sections' key"
      [] root = "sectionsnotdict" -> "'sections' must be a dictionary"

\* the messages the loop body adds for one item of data["sections"]
SectionErrors(section) ==
    IF ~section.value.dict
    THEN <<"Section '" \o section.name \o "' must be a dictionary">>
    ELSE IF section.value.items = <<>>
    THEN <<"Section '" \o section.name \o "' is empty">>
    ELSE <<>>

ValidateOpen_noreturn ==
    /\ pc = "validate"
    /\ vidx' = 0
    /\ IF input.root \in RootFailures
       THEN /\ errors' = IF input.root = "notdict"
                         THEN <<RootMessage("notdict"), RootMessage("nosections")>>
                         ELSE <<RootMessage(input.root)>>
            /\ pc' = "validated"
       ELSE /\ errors' = <<>>
            /\ pc' = "validate_loop"
    /\ UNCHANGED <<input, args, title, hotkeys, config, sections, idx,
                   section_items, content, policy, heights, pages, raised,
                   exit_code>>

\* validate_yaml up to the loop: open, safe_load and the checks of the root
ValidateOpen ==
    /\ pc = "validate"
    /\ vidx' = 0
    /\ IF input.root \in RootFailures
       THEN /\ errors' = <<RootMessage(input.root)>>
            /\ pc' = "validated"
       ELSE /\ errors' = <<>>
            /\ pc' = "validate_loop"
    /\ UNCHANGED <<input, args, title, hotkeys, config, sections, idx,
                   section_items, content, policy, heights, pages, raised,
                   exit_code>>

ValidateSection_stop ==
    /\ pc = "validate_loop"
    /\ vidx < Len(input.sections)
    /\ errors' = errors \o SectionErrors(input.sections[vidx + 1])
    /\ vidx' = vidx + 1
    /\ pc' = IF input.sections[vidx + 1].value.dict THEN pc ELSE "validated"
    /\ UNCHANGED <<input, args, title, hotkeys, config, sections, idx,
                   section_items, content, policy, heights, pages, raised,
                   exit_code>>

\* one iteration of "for section_name, section_data in sections.items()"
ValidateSection ==
    /\ pc = "validate_loop"
    /\ vidx < Len(input.sections)
    /\ errors' = errors \o SectionErrors(input.sections[vidx + 1])
    /\ vidx' = vidx + 1
    /\ UNCHANGED <<input, args, pc, title, hotkeys, config, sections, idx,
                   section_items, content, policy, heights, pages, raised,
                   exit_code>>

\* the "return errors" after the loop
ValidateReturn ==
    /\ pc = "validate_loop"
    /\ vidx = Len(input.sections)
    /\ pc' = "validated"
    /\ UNCHANGED <<input, args, errors, vidx, title, hotkeys, config, sections,
                   idx, section_items, content, policy, heights, pages, raised,
                   exit_code>>

\* CheatSheetConfig.from_dict: the defaults, overridden by the known keys
RECURSIVE FromDict(_, _, _)
FromDict(cfg, config_data, i) ==
    IF i > Len(config_data) THEN cfg
    ELSE FromDict(IF config_data[i].name \in DOMAIN cfg
                  THEN [cfg EXCEPT ![config_data[i].name] = config_data[i].value]
                  ELSE cfg,
                  config_data, i + 1)

from_dict(config_data) == FromDict(DefaultConfig, config_data, 1)

RawHotkey(key, description, section, subsection) ==
    [key |-> key, description |-> description, section |-> section,
     subsection |-> subsection]

ItemHotkeys_subsection(section_name, item) ==
    IF item.value.dict
    THEN [i \in 1..Len(item.value.items) |->
             RawHotkey(item.value.items[i].name, item.value.items[i].value,
                       section_name, item.name)]
    ELSE <<RawHotkey(item.name, item.value.text, section_name, item.name)>>

\* the Hotkey(...) calls parse_dict makes for one item of a section
ItemHotkeys(section_name, item) ==
    IF item.value.dict
    THEN [i \in 1..Len(item.value.items) |->
             RawHotkey(item.value.items[i].name, item.value.items[i].value,
                       section_name, item.name)]
    ELSE <<RawHotkey(item.name, item.value.text, section_name, "")>>

RECURSIVE ItemsHotkeys(_, _, _)
ItemsHotkeys(section_name, items, i) ==
    IF i > Len(items) THEN <<>>
    ELSE ItemHotkeys(section_name, items[i])
         \o ItemsHotkeys(section_name, items, i + 1)

\* the Hotkey(...) calls of parse_dict, in order; a section that is not a
\* mapping is skipped
RECURSIVE SectionsHotkeys(_, _)
SectionsHotkeys(sections_data, i) ==
    IF i > Len(sections_data) THEN <<>>
    ELSE (IF sections_data[i].value.dict
          THEN ItemsHotkeys(sections_data[i].name, sections_data[i].value.items, 1)
          ELSE <<>>)
         \o SectionsHotkeys(sections_data, i + 1)

RawValid(raw) == HotkeyValid(raw.key, raw.description, raw.section)

\* parse_dict: the hotkeys of the CheatSheet, or the exception it raises
parse_dict(data) ==
    LET raws == SectionsHotkeys(data.sections, 1)
    IN IF \E i \in 1..Len(raws) : ~RawValid(raws[i])
       THEN [raised |-> "ValueError", hotkeys |-> <<>>]
       ELSE [raised |-> "",
             hotkeys |-> [i \in 1..Len(raws) |->
                             Hotkey(raws[i].key, raws[i].description,
                                    raws[i].section, raws[i].subsection)]]

\* what parse_file raises before or instead of the loop of parse_dict
ParseRootRaises(root) ==
    CASE root = "notfound" -> "FileNotFoundError"
      [] root = "syntax" -> "YAMLError"
      [] root = "notdict" -> "ValueError"
      [] root = "sectionsnotdict" -> "AttributeError"
      [] OTHER -> ""

\* parse_file: main calls it once validation passed and --validate is absent
ParseFile ==
    /\ pc = IF args.cli THEN "parse" ELSE "validated"
    /\ IF ParseRootRaises(input.root) # ""
       THEN /\ Raise(ParseRootRaises(input.root))
            /\ UNCHANGED <<title, config, hotkeys>>
       ELSE IF parse_dict(input).raised # ""
       THEN /\ Raise(parse_dict(input).raised)
            /\ UNCHANGED <<title, config, hotkeys>>
       ELSE /\ title' = IF input.title = <<>> THEN "Hotkey Cheat Sheet"
                        ELSE input.title[1]
            /\ config' = [from_dict(input.config) EXCEPT !.title = title']
            /\ hotkeys' = parse_dict(input).hotkeys
            /\ pc' = "ready"
            /\ UNCHANGED <<raised, exit_code>>
    /\ UNCHANGED <<input, args, errors, vidx, sections, idx, section_items,
                   content, policy, heights, pages>>

----------------------------------------------------------------------------
(* cli.py: main *)

\* click.Path(exists=True) rejects a missing file before main runs
MainStart ==
    /\ pc = "main"
    /\ IF input.root = "notfound"
       THEN pc' = "exit" /\ exit_code' = 2
       ELSE pc' = "validate" /\ UNCHANGED exit_code
    /\ UNCHANGED <<input, args, errors, vidx, title, hotkeys, config, sections,
                   idx, section_items, content, policy, heights, pages, raised>>

MainValidated_noexit ==
    /\ pc = "validated"
    /\ args.cli
    /\ IF args.validate /\ errors = <<>> THEN pc' = "exit" /\ exit_code' = 0
       ELSE pc' = "parse" /\ UNCHANGED exit_code
    /\ UNCHANGED <<input, args, errors, vidx, title, hotkeys, config, sections,
                   idx, section_items, content, policy, heights, pages, raised>>

\* "if errors: sys.exit(1)" and "if validate: return"
MainValidated ==
    /\ pc = "validated"
    /\ args.cli
    /\ IF errors # <<>> THEN pc' = "exit" /\ exit_code' = 1
       ELSE IF args.validate THEN pc' = "exit" /\ exit_code' = 0
       ELSE pc' = "parse" /\ UNCHANGED exit_code
    /\ UNCHANGED <<input, args, errors, vidx, title, hotkeys, config, sections,
                   idx, section_items, content, policy, heights, pages, raised>>

ArgsSet ==
    {[cli |-> TRUE, validate |-> v, estimate_pages |-> e] : v, e \in BOOLEAN}
    \cup {ApiArgs}

Init ==
    /\ input \in Inputs
    /\ args \in ArgsSet
    /\ pc = IF args.cli THEN "main" ELSE "validate"
    /\ errors = <<>>
    /\ vidx = 0
    /\ title = ""
    /\ hotkeys = <<>>
    /\ config = DefaultConfig
    /\ sections = <<>>
    /\ idx = 0
    /\ section_items = <<>>
    /\ content = <<>>
    /\ policy = <<>>
    /\ heights = <<>>
    /\ pages = 0
    /\ raised = ""
    /\ exit_code = -1

Validate == ValidateOpen \/ ValidateSection \/ ValidateReturn

Next == MainStart \/ Validate \/ MainValidated \/ ParseFile \/ Layout

Spec == Init /\ [][Next]_vars

----------------------------------------------------------------------------
(* _build_content applied to a grouped view given directly, whose           *)
(* subsections may hold no entry                                            *)

ViewRows(section_name, subsection_name, n) ==
    [i \in 1..n |->
        Hotkey("a", "d", section_name,
               IF subsection_name = "General" THEN "" ELSE subsection_name)]

ViewSubsections(section_name, counts) ==
    [u \in 1..Len(counts) |->
        [name |-> counts[u].name,
         hotkeys |-> ViewRows(section_name, counts[u].name, counts[u].value)]]

Views ==
    {[s \in 1..Len(view) |->
         [name |-> view[s].name,
          subsections |-> ViewSubsections(view[s].name, view[s].value)]]
     : view \in Mappings(SectionNames,
                         Mappings({"General", "Clipboard"}, 0..MaxRows, 2),
                         MaxSections)}

InitPlan ==
    /\ input = NoInput
    /\ args = ApiArgs
    /\ pc = "build"
    /\ errors = <<>>
    /\ vidx = 0
    /\ title = "Test"
    /\ hotkeys = <<>>
    /\ config \in Configs
    /\ sections \in Views
    /\ idx = 0
    /\ section_items = <<>>
    /\ content = <<>>
    /\ policy = <<>>
    /\ heights = <<>>
    /\ pages = 0
    /\ raised = ""
    /\ exit_code = -1

NextPlan == BuildSection \/ BuildContentReturn

SpecPlan == InitPlan /\ [][NextPlan]_vars

----------------------------------------------------------------------------
(* Properties *)

Range(seq) == {seq[i] : i \in 1..Len(seq)}

Planned == pc \in {"build", "built"}

\* C1: the branch _build_content takes for a section depends only on its
\* estimated height h: SMALL exactly when h < 100, LARGE exactly when
\* h > 200, MEDIUM exactly when 100 <= h <= 200 (so 100 and 200 are MEDIUM),
\* exactly one of the three; MEDIUM sections emit no KeepTogether, the
\* others emit nothing but KeepTogether blocks and the trailing spacer.
C1_PolicyByHeight ==
    Planned =>
        /\ Len(policy) = idx /\ Len(heights) = idx
        /\ \A i \in 1..idx :
              /\ policy[i] \in {"SMALL", "MEDIUM", "LARGE"}
              /\ policy[i] = "SMALL" <=> heights[i] < 100 * Unit
              /\ policy[i] = "LARGE" <=> heights[i] > 200 * Unit
              /\ policy[i] = "MEDIUM" <=>
                     (100 * Unit <= heights[i] /\ heights[i] <= 200 * Unit)
        /\ (\A i \in 1..idx : policy[i] = "MEDIUM") =>
               \A b \in Range(section_items) : b.type # "KeepTogether"
        /\ (\A i \in 1..idx : policy[i] # "MEDIUM") =>
               \A b \in Range(section_items) : b.type \in {"KeepTogether", "Spacer"}

\* a sheet with one section estimated at exactly 100 and one at exactly 200
C1_Witness ==
    /\ pc = "built"
    /\ \E i, j \in 1..idx :
          /\ heights[i] = 100 * Unit /\ policy[i] = "MEDIUM"
          /\ heights[j] = 200 * Unit /\ policy[j] = "MEDIUM"

\* index of the first entry of the list that satisfies Test
FirstIndex(hks, Test(_)) ==
    CHOOSE i \in 1..Len(hks) :
        Test(hks[i]) /\ \A j \in 1..(i - 1) : ~Test(hks[j])

BucketName(hotkey) ==
    IF hotkey.subsection = "" THEN "General" ELSE hotkey.subsection

\* C2: the grouped view lists the sections in the order of the first
\* occurrence of their names in the entry list, inside each section the
\* subsections in the order of their first occurrence among the section's
\* entries, and inside a subsection the entries in their input order.
C2_FirstSeenOrder ==
    Planned =>
        /\ {sections[s].name : s \in 1..Len(sections)}
               = {hotkeys[i].section : i \in 1..Len(hotkeys)}
        /\ \A s, t \in 1..Len(sections) :
              s < t =>
                  FirstIndex(hotkeys, LAMBDA h : h.section = sections[s].name)
                  < FirstIndex(hotkeys, LAMBDA h : h.section = sections[t].name)
        /\ \A s \in 1..Len(sections) :
              LET name == sections[s].name
                  subs == sections[s].subsections
              IN /\ {subs[u].name : u \in 1..Len(subs)}
                        = {BucketName(hotkeys[i]) :
                              i \in {j \in 1..Len(hotkeys) :
                                        hotkeys[j].section = name}}
                 /\ \A u, v \in 1..Len(subs) :
                       u < v =>
                           FirstIndex(hotkeys,
                               LAMBDA h : h.section = name
                                          /\ BucketName(h) = subs[u].name)
                           < FirstIndex(hotkeys,
                               LAMBDA h : h.section = name
                                          /\ BucketName(h) = subs[v].name)
                 /\ \A u \in 1..Len(subs) :
                       subs[u].hotkeys =
                           SelectSeq(hotkeys,
                               LAMBDA h : h.section = name
                                          /\ BucketName(h) = subs[u].name)

\* a section that recurs after another one, with an unnamed entry after a
\* named subsection
C2_Witness ==
    /\ Planned
    /\ Len(hotkeys) = 3
    /\ hotkeys[1].section = hotkeys[3].section
    /\ hotkeys[1].section # hotkeys[2].section
    /\ hotkeys[1].subsection = "Clipboard"
    /\ hotkeys[3].subsection = ""
    /\ hotkeys[1].key # hotkeys[3].key

\* C3: every entry with an empty subsection is grouped under the subsection
\* "General" of its section, every other entry under its own subsection name
\* of its section, and an empty entry list groups to an empty mapping.
C3_GeneralBucket ==
    Planned =>
        /\ \A i \in 1..Len(hotkeys) :
              \E s \in 1..Len(sections) :
                  /\ sections[s].name = hotkeys[i].section
                  /\ \E u \in 1..Len(sections[s].subsections) :
                        /\ sections[s].subsections[u].name =
                               (IF hotkeys[i].subsection = "" THEN "General"
                                ELSE hotkeys[i].subsection)
                        /\ hotkeys[i] \in Range(sections[s].subsections[u].hotkeys)
        /\ hotkeys = <<>> => sections = <<>>

\* an unnamed entry and a named one of the same section
C3_Witness ==
    /\ Planned
    /\ \E i, j \in 1..Len(hotkeys) :
          /\ hotkeys[i].subsection = ""
          /\ hotkeys[j].subsection = "Clipboard"
          /\ hotkeys[i].section = hotkeys[j].section

\* C4: whenever estimate_pages returns, the value is an integer and at least
\* 1, also for a sheet with no entries and no sections.
C4_PagesAtLeastOne ==
    pc = "done" => pages \in Int /\ pages >= 1

\* estimate_pages has returned for a sheet without entries
C4_Witness ==
    pc = "done" /\ hotkeys = <<>> /\ pages = 1

SectionEntries(name) == {i \in 1..Len(hotkeys) : hotkeys[i].section = name}

SectionBuckets(name) == {BucketName(hotkeys[i]) : i \in SectionEntries(name)}

\* C5: the height estimated for a section is (header_font_size + 15)
\* + section_spacing + for each subsection: font_size + 8 unless it is
\* "General", row_height per entry, and subsection_spacing.
C5_SectionHeightFormula ==
    Planned =>
        \A i \in 1..idx :
            LET name == sections[i].name
            IN heights[i] =
                   (config.header_font_size + 15 * Unit)
                   + config.section_spacing
                   + Cardinality(SectionBuckets(name) \ {"General"})
                         * (config.font_size + 8 * Unit)
                   + Cardinality(SectionEntries(name)) * config.row_height
                   + Cardinality(SectionBuckets(name)) * config.subsection_spacing

\* a planned section of three entries with "General" and a named subsection
C5_Witness ==
    /\ Planned
    /\ \E i \in 1..idx :
          /\ SectionBuckets(sections[i].name) = {"General", "Clipboard"}
          /\ Cardinality(SectionEntries(sections[i].name)) = 3

\* the least integer that is at least num / den, for den # 0
LeastIntegerAtLeast(num, den) ==
    LET AtLeast(n) == IF den > 0 THEN n * den >= num ELSE n * den <= num
    IN CHOOSE n \in -200..200 : AtLeast(n) /\ ~AtLeast(n - 1)

\* C6: estimate_pages returns max(1, ceil(total / columns / usable_height))
\* with total = 30 + 15 * sections + 12 * subsections + entries * row_height
\* + sections * section_spacing and usable_height = page_height - 2 * margin:
\* a function of the entries and the configuration alone.
C6_PagesFormula ==
    pc = "done" =>
        LET names == {hotkeys[i].section : i \in 1..Len(hotkeys)}
            buckets == {<<hotkeys[i].section, BucketName(hotkeys[i])>> :
                           i \in 1..Len(hotkeys)}
            total == 30 * Unit + 15 * Unit * Cardinality(names)
                     + 12 * Unit * Cardinality(buckets)
                     + Len(hotkeys) * config.row_height
                     + Cardinality(names) * config.section_spacing
            usable_height == page_height - 2 * config.margin
            pages_needed ==
                LeastIntegerAtLeast(total, config.columns * usable_height)
        IN pages = IF pages_needed >= 1 THEN pages_needed ELSE 1

\* estimate_pages has returned more than one page for several entries
C6_Witness ==
    pc = "done" /\ pages > 1 /\ Len(hotkeys) >= 2

\* the estimate of the section called name in the grouped view of hks
HeightOf(hks, name) ==
    LET secs == get_sections(hks)
    IN estimate_section_height(secs[IndexOf(secs, name)].subsections, config)

\* a step that appends an entry to a subsection the list already fills
AddsToSubsection ==
    /\ pc = "construct"
    /\ Len(hotkeys') = Len(hotkeys) + 1
    /\ \E i \in 1..Len(hotkeys) :
          /\ hotkeys[i].section = hotkeys'[Len(hotkeys')].section
          /\ BucketName(hotkeys[i]) = BucketName(hotkeys'[Len(hotkeys')])

HeightNotSmaller ==
    HeightOf(hotkeys', hotkeys'[Len(hotkeys')].section)
    >= HeightOf(hotkeys, hotkeys'[Len(hotkeys')].section)

\* C7 as stated: for a fixed configuration, adding an entry to a subsection
\* of a section never yields a smaller estimate of the section's height.
C7_Monotone ==
    [][AddsToSubsection => HeightNotSmaller]_vars

\* C7 amended: for a fixed configuration whose row_height is not negative,
\* adding an entry to a subsection of a section never yields a smaller
\* estimate of the section's height.
C7_MonotoneNonNegativeRows ==
    [][(config.row_height >= 0 /\ AddsToSubsection) => HeightNotSmaller]_vars

\* two entries of the same subsection under a row height that is not negative
C7_Witness ==
    /\ pc = "construct"
    /\ config.row_height >= 0
    /\ Len(hotkeys) >= 2
    /\ hotkeys[1].section = hotkeys[2].section
    /\ BucketName(hotkeys[1]) = BucketName(hotkeys[2])

NonEmptyFields(hotkey) ==
    hotkey.key # "" /\ hotkey.description # "" /\ hotkey.section # ""

\* C8: constructing an entry with an empty key, description or section
\* fails at once with a ValueError, so no such entry is ever in the sheet or
\* in its grouped view, and no layout stage runs on an input that holds one.
C8_NoEmptyEntry ==
    LET raws == SectionsHotkeys(input.sections, 1)
        invalid == \E i \in 1..Len(raws) : ~NonEmptyFields(raws[i])
    IN /\ \A i \in 1..Len(hotkeys) : NonEmptyFields(hotkeys[i])
       /\ \A s \in 1..Len(sections) :
             \A u \in 1..Len(sections[s].subsections) :
                 \A h \in Range(sections[s].subsections[u].hotkeys) :
                     NonEmptyFields(h)
       /\ pc \in {"ready", "build", "built", "done"} => ~invalid
       /\ (invalid /\ pc = "raised") =>
              raised = "ValueError" /\ hotkeys = <<>> /\ pages = 0
                                    /\ content = <<>>

\* main ended with exit code 1 on an entry with an empty field
C8_Witness ==
    /\ pc = "raised" /\ raised = "ValueError" /\ input.root = "ok"
    /\ args.cli /\ exit_code = 1
    /\ \E raw \in Range(SectionsHotkeys(input.sections, 1)) :
          ~NonEmptyFields(raw)

InvalidSection(section) ==
    ~section.value.dict \/ section.value.items = <<>>

\* C9: validate_yaml reports every invalid section, in order, one message
\* each, and visits every section whatever it found before.
C9_CollectsAllSections ==
    (pc = "validated" /\ input.root = "ok") =>
        LET bad == {i \in 1..Len(input.sections) :
                       InvalidSection(input.sections[i])}
        IN /\ vidx = Len(input.sections)
           /\ Len(errors) = Cardinality(bad)
           /\ \A i \in bad :
                 errors[Cardinality({j \in bad : j <= i})] =
                     IF input.sections[i].value.dict
                     THEN "Section '" \o input.sections[i].name \o "' is empty"
                     ELSE "Section '" \o input.sections[i].name
                          \o "' must be a dictionary"

\* two invalid sections, the first one not a mapping
C9_Witness ==
    /\ pc = "validated" /\ input.root = "ok"
    /\ Len(input.sections) = 2
    /\ ~input.sections[1].value.dict
    /\ InvalidSection(input.sections[2])
    /\ Len(errors) = 2

\* C10: on a failure of the root (syntax, missing file, root or sections
\* not a mapping, no 'sections' key) validate_yaml returns exactly the one
\* message of that failure without visiting any section; on an input whose
\* sections are all non-empty mappings it returns the empty list.
C10_RootFailureSingleMessage ==
    pc = "validated" =>
        /\ input.root = "syntax" => errors = <<"Invalid YAML syntax: e">>
        /\ input.root = "notfound" => errors = <<"File not found: file_path">>
        /\ input.root = "nosections" => errors = <<"Missing 'sections' key">>
        /\ input.root = "notdict" =>
               errors = <<"Root element must be a dictionary">>
        /\ input.root = "sectionsnotdict" =>
               errors = <<"'sections' must be a dictionary">>
        /\ input.root # "ok" => vidx = 0
        /\ (/\ input.root = "ok"
            /\ \A i \in 1..Len(input.sections) :
                  ~InvalidSection(input.sections[i])) => errors = <<>>

\* validate_yaml has returned for a file that does not exist
C10_Witness ==
    pc = "validated" /\ input.root = "notfound" /\ Len(errors) = 1

\* parse_dict has returned a CheatSheet
Parsed ==
    \/ pc \in {"ready", "build", "built", "done"}
    \/ pc = "raised" /\ raised = "ZeroDivisionError"

\* the places of the document that hold an entry: <<s, i, 0>> for the scalar
\* item i of section s, <<s, i, k>> for pair k of the nested mapping i
Slots ==
    {<<s, i, 0>> : s \in 1..Len(input.sections), i \in 1..MaxItems}
    \cup {<<s, i, k>> : s \in 1..Len(input.sections), i \in 1..MaxItems,
                       k \in 1..MaxItems}

FilledSlots ==
    {x \in Slots :
        /\ input.sections[x[1]].value.dict
        /\ x[2] <= Len(input.sections[x[1]].value.items)
        /\ LET value == input.sections[x[1]].value.items[x[2]].value
           IN IF x[3] = 0 THEN ~value.dict
              ELSE value.dict /\ x[3] <= Len(value.items)}

SlotBefore(x, y) ==
    \/ x[1] < y[1]
    \/ x[1] = y[1] /\ x[2] < y[2]
    \/ x[1] = y[1] /\ x[2] = y[2] /\ x[3] < y[3]

\* C11: parse_dict turns every scalar item of a section into one entry
\* (item name as key, value as description, no subsection, hence grouped
\* under "General") and every pair of a nested mapping into one entry with
\* the item name as subsection, in input order and with nothing else.
C11_ParseDictEntries ==
    Parsed =>
        /\ Len(hotkeys) = Cardinality(FilledSlots)
        /\ \A x \in FilledSlots :
              LET section == input.sections[x[1]]
                  item == section.value.items[x[2]]
                  entry == hotkeys[Cardinality({y \in FilledSlots :
                                                   SlotBefore(y, x)}) + 1]
              IN /\ entry.section = section.name
                 /\ IF x[3] = 0
                    THEN /\ entry.key = item.name
                         /\ entry.description = item.value.text
                         /\ entry.subsection = ""
                         /\ Planned =>
                                \E t \in 1..Len(sections) :
                                    /\ sections[t].name = section.name
                                    /\ \E u \in 1..Len(sections[t].subsections) :
                                          /\ sections[t].subsections[u].name
                                                 = "General"
                                          /\ entry \in Range(
                                                 sections[t].subsections[u].hotkeys)
                    ELSE /\ entry.key = item.value.items[x[3]].name
                         /\ entry.description = item.value.items[x[3]].value
                         /\ entry.subsection = item.name

\* a section with a nested mapping followed by a scalar item, grouped
C11_Witness ==
    /\ Planned
    /\ \E s \in 1..Len(input.sections) :
          /\ input.sections[s].value.dict
          /\ Len(input.sections[s].value.items) = 2
          /\ input.sections[s].value.items[1].value.dict
          /\ input.sections[s].value.items[1].value.items # <<>>
          /\ ~input.sections[s].value.items[2].value.dict

\* validate_yaml finds something wrong with the file
InputInvalid ==
    \/ input.root # "ok"
    \/ \E i \in 1..Len(input.sections) : InvalidSection(input.sections[i])

\* parse_file, estimate_pages or generate has been entered or has ended
PastValidation ==
    \/ pc \in {"parse", "ready", "build", "built", "done", "raised"}
    \/ hotkeys # <<>> \/ sections # <<>> \/ content # <<>> \/ pages # 0
    \/ raised # ""

\* C12: in a run of main validation comes first; when it returns an error
\* the run ends with exit code 1 and parsing, page estimation and PDF
\* generation are never performed; generation is reached only when
\* validation found nothing and neither --validate nor --estimate-pages is
\* given.
C12_ValidationGatesMain ==
    args.cli =>
        /\ PastValidation =>
               /\ errors = <<>> /\ ~InputInvalid /\ ~args.validate
               /\ vidx = Len(input.sections)
        /\ (pc = "exit" /\ errors # <<>>) => exit_code = 1
        /\ (InputInvalid /\ pc = "exit" /\ input.root # "notfound") =>
               errors # <<>> /\ exit_code = 1
        /\ (pc \in {"build", "built"} \/ content # <<>> \/ sections # <<>>) =>
               errors = <<>> /\ ~args.validate /\ ~args.estimate_pages

\* main has ended with exit code 1 on a file with an invalid section, with
\* no flag given
C12_Witness ==
    /\ args.cli /\ ~args.validate /\ ~args.estimate_pages
    /\ pc = "exit" /\ exit_code = 1
    /\ input.root = "ok" /\ errors # <<>>

\* the blocks of a stream with every KeepTogether replaced by what it holds
RECURSIVE Flatten(_)
Flatten(blocks) ==
    IF blocks = <<>> THEN <<>>
    ELSE (IF Head(blocks).type = "KeepTogether"
          THEN Flatten(Head(blocks).flowables) ELSE <<Head(blocks)>>)
         \o Flatten(Tail(blocks))

CountBlocks(blocks, Test(_)) ==
    Cardinality({i \in 1..Len(blocks) : Test(blocks[i])})

\* the subsections of the view that satisfy Test, as <<section, subsection>>
SubsectionsWhere(Test(_)) ==
    {<<s, u>> \in (1..Len(sections)) \X (1..2) :
        /\ u <= Len(sections[s].subsections)
        /\ Test(sections[s].subsections[u])}

PlansSection == pc = "build" /\ idx' = idx + 1

\* the blocks that step appends to section_items
Emitted == SubSeq(section_items', Len(section_items) + 1, Len(section_items'))

IsSectionHeader(b, name) ==
    /\ b.type = "Paragraph" /\ b.style = "section_header"
    /\ b.text = "<b>" \o upper(name) \o "</b>"

IsSubsectionHeader(b, name) ==
    /\ b.type = "Paragraph" /\ b.style = "subsection_header"
    /\ b.text = "<i>" \o name \o "</i>"

\* a table with one row per entry, in order: the key, then the description
IsTableOf(b, hks) ==
    /\ b.type = "Table"
    /\ Len(b.data) = Len(hks)
    /\ \A i \in 1..Len(hks) :
          /\ b.data[i][1].text =
                 "<font name='Courier-Bold'>" \o escape(hks[i].key) \o "</font>"
          /\ b.data[i][2].text = escape(hks[i].description)

UnitLen(subsection) == IF subsection.name = "General" THEN 2 ELSE 3

\* blocks is the subsection's header (unless "General"), table and spacer
IsSubsectionUnit(blocks, subsection) ==
    /\ Len(blocks) = UnitLen(subsection)
    /\ subsection.name # "General" =>
           IsSubsectionHeader(blocks[1], subsection.name)
    /\ IsTableOf(blocks[Len(blocks) - 1], subsection.hotkeys)
    /\ blocks[Len(blocks)] = Spacer(config.subsection_spacing)

HoldsSectionHeader(blocks) ==
    \E k \in 1..Len(blocks) :
        blocks[k].type = "Paragraph" /\ blocks[k].style = "section_header"

\* C15: a section above 200 is emitted as one atomic block per subsection,
\* in order; the first block starts with the section header, the others do
\* not hold it, every block holds the subsection's header (unless
\* "General"), table and spacer, and the section header is in no other place.
C15_LargePerSubsection ==
    [][(PlansSection /\ policy'[idx'] = "LARGE") =>
          LET section == sections[idx']
              subs == section.subsections
          IN /\ Len(Emitted) = Len(subs) + 1
             /\ ~HoldsSectionHeader(Emitted)
             /\ \A u \in 1..Len(subs) :
                   /\ Emitted[u].type = "KeepTogether"
                   /\ LET f == Emitted[u].flowables
                          body == IF u = 1 THEN SubSeq(f, 3, Len(f)) ELSE f
                      IN /\ u = 1 =>
                                /\ Len(f) >= 2
                                /\ IsSectionHeader(f[1], section.name)
                                /\ f[2] = Spacer(3 * Unit)
                         /\ ~HoldsSectionHeader(body)
                         /\ IsSubsectionUnit(body, subs[u])]_vars

\* a planned section above 200 with two subsections
C15_Witness ==
    /\ Planned
    /\ \E i \in 1..idx :
          policy[i] = "LARGE" /\ Len(sections[i].subsections) = 2

\* the number of blocks of the subsections before the u-th one
RECURSIVE UnitsBefore(_, _)
UnitsBefore(subs, u) ==
    IF u = 1 THEN 0 ELSE UnitsBefore(subs, u - 1) + UnitLen(subs[u - 1])

\* blocks is the section header with its spacer, then for each subsection in
\* order its header (unless "General"), its table and its spacer
IsSectionSequence(blocks, section) ==
    LET subs == section.subsections
    IN /\ Len(blocks) = 2 + UnitsBefore(subs, Len(subs) + 1)
       /\ IsSectionHeader(blocks[1], section.name)
       /\ blocks[2] = Spacer(3 * Unit)
       /\ \A u \in 1..Len(subs) :
             IsSubsectionUnit(SubSeq(blocks, 3 + UnitsBefore(subs, u),
                                     2 + UnitsBefore(subs, u + 1)), subs[u])

HoldsAtomic(blocks) ==
    \E k \in 1..Len(blocks) : blocks[k].type = "KeepTogether"

\* C16: a section below 100 is emitted as exactly one atomic block that holds
\* the section's sequence (section header, then per subsection its header
\* unless "General", its table and its spacer); a section from 100 to 200 is
\* emitted as that same sequence of individual blocks, none of them atomic.
C16_SmallAtomicMediumFlows ==
    [][PlansSection =>
          LET section == sections[idx']
              before == SubSeq(Emitted, 1, Len(Emitted) - 1)
          IN /\ policy'[idx'] = "SMALL" =>
                    /\ Len(before) = 1
                    /\ before[1].type = "KeepTogether"
                    /\ IsSectionSequence(before[1].flowables, section)
             /\ policy'[idx'] = "MEDIUM" =>
                    /\ ~HoldsAtomic(Emitted)
                    /\ IsSectionSequence(before, section)]_vars

\* a document planned with one section below 100 and one from 100 to 200,
\* the latter with a named subsection
C16_Witness ==
    /\ Planned
    /\ \E i, j \in 1..idx :
          /\ policy[i] = "SMALL"
          /\ policy[j] = "MEDIUM"
          /\ \E u \in 1..Len(sections[j].subsections) :
                sections[j].subsections[u].name # "General"

\* C17: every planned section's blocks, whatever the policy, are followed at
\* once by one top-level spacer of section_spacing, and the returned stream
\* is the title followed by the sections' blocks in grouped section order.
C17_TrailingSpacerPerSection ==
    [][/\ PlansSection =>
              LET section == sections[idx']
                  before == SubSeq(Emitted, 1, Len(Emitted) - 1)
              IN /\ Len(Emitted) >= 2
                 /\ Emitted[Len(Emitted)] = Spacer(config.section_spacing)
                 /\ IsSectionHeader(Flatten(before)[1], section.name)
                 /\ CountBlocks(Flatten(before),
                                LAMBDA b : b.type = "Paragraph"
                                           /\ b.style = "section_header") = 1
       /\ (pc = "build" /\ pc' = "built") =>
              /\ Len(policy) = Len(sections)
              /\ content' = <<Paragraph(title, "title"), Spacer(12 * Unit)>>
                            \o section_items]_vars

\* a returned stream of two sections that got different policies
C17_Witness ==
    /\ pc = "built"
    /\ Len(sections) = 2
    /\ policy[1] # policy[2]
    /\ Len(content) > 2

\* the document exists: parse_file has returned it
Created == pc \in {"ready", "build", "built", "done"}

\* the entries held by the grouped view
GroupedEntries(secs) ==
    UNION {UNION {Range(secs[s].subsections[u].hotkeys) :
                      u \in 1..Len(secs[s].subsections)} :
               s \in 1..Len(secs)}

RECURSIVE TableRows(_)
TableRows(blocks) ==
    IF blocks = <<>> THEN <<>>
    ELSE (IF Head(blocks).type = "Table" THEN Head(blocks).data ELSE <<>>)
         \o TableRows(Tail(blocks))

\* entry i comes before entry j in the grouped order: by the first
\* occurrence of the section, then of the subsection inside that section,
\* then by the place in the entry list
GroupedBefore(i, j) ==
    LET section(k) ==
            FirstIndex(hotkeys, LAMBDA h : h.section = hotkeys[k].section)
        bucket(k) ==
            FirstIndex(hotkeys,
                       LAMBDA h : /\ h.section = hotkeys[k].section
                                  /\ BucketName(h) = BucketName(hotkeys[k]))
    IN \/ section(i) < section(j)
       \/ section(i) = section(j) /\ bucket(i) < bucket(j)
       \/ section(i) = section(j) /\ bucket(i) = bucket(j) /\ i < j

GroupedRank(j) ==
    1 + Cardinality({i \in 1..Len(hotkeys) : GroupedBefore(i, j)})

\* C19: the returned stream has as many table rows as the document has
\* entries, and the row at an entry's place in the grouped order (section,
\* subsection, entry) shows that entry's key and description: no entry is
\* dropped, none appears twice, whatever the policies.
C19_EveryEntryOneRow ==
    pc = "built" =>
        LET rows == TableRows(Flatten(content))
        IN /\ Len(rows) = Len(hotkeys)
           /\ \A j \in 1..Len(hotkeys) :
                 /\ rows[GroupedRank(j)][1].text =
                        "<font name='Courier-Bold'>"
                        \o escape(hotkeys[j].key) \o "</font>"
                 /\ rows[GroupedRank(j)][2].text =
                        escape(hotkeys[j].description)

\* a returned stream of three entries with a section above 200 whose entries
\* are not contiguous in the entry list
C19_Witness ==
    /\ pc = "built"
    /\ Len(hotkeys) = 3
    /\ \E i \in 1..Len(policy) : policy[i] = "LARGE"
    /\ \E j \in 1..Len(hotkeys) : GroupedRank(j) # j
    /\ \E i, j \in 1..Len(hotkeys) : hotkeys[i].key # hotkeys[j].key

====
